---- MODULE Spec2Model ----
(***************************************************************************)
(* Model of the UDCito RAG backend (app/core.py, app/main.py).             *)
(*                                                                         *)
(* Python values are modelled directly: str as TLA+ strings, list as       *)
(* sequences, dict as an insertion-ordered pair (keys, value of each key), *)
(* a call as a result that either returns a value or raises an exception.  *)
(* The three external providers (chat completion, embeddings + vector      *)
(* store) are not part of the repository: what a call to one of them does  *)
(* (return something, or raise) is an input of the operation that makes    *)
(* the call, chosen nondeterministically by the action that runs it.       *)
(***************************************************************************)
EXTENDS Integers, Sequences, FiniteSets, TLC

\* ------------------------------------------------------------------ bounds
\* longest document list handed to consultar_llm / reordenar_documentos
MaxDocs == 3
\* longest history handed to a pipeline function
MaxHistory == 4
\* longest history of a /consultar request and of a consultar_llm call
MaxChatHistory == 2
\* most documents one vector-store call returns to a retrieval strategy
MaxHits == 2
\* most documents one vector-store call returns within an end-to-end query
MaxPipelineHits == 1

\* requests recorded before the counters are reset
MaxRequests == 4

\* ------------------------------------------------------- python: str, list
Whitespace == {" ", "\n", "\t"}

RECURSIVE lstrip(_)
lstrip(s) ==
    IF Len(s) > 0 /\ SubSeq(s, 1, 1) \in Whitespace
    THEN lstrip(SubSeq(s, 2, Len(s)))
    ELSE s

RECURSIVE rstrip(_)
rstrip(s) ==
    IF Len(s) > 0 /\ SubSeq(s, Len(s), Len(s)) \in Whitespace
    THEN rstrip(SubSeq(s, 1, Len(s) - 1))
    ELSE s

\* str.strip()
strip(s) == rstrip(lstrip(s))

\* sep.join(parts), parts a list of str
RECURSIVE join(_, _)
join(sep, parts) ==
    IF Len(parts) = 0 THEN ""
    ELSE IF Len(parts) = 1 THEN parts[1]
    ELSE parts[1] \o sep \o join(sep, Tail(parts))

\* mutant of last3: the whole list
all_entries(lst) == lst

\* lst[-3:]
last3(lst) == IF Len(lst) <= 3 THEN lst ELSE SubSeq(lst, Len(lst) - 2, Len(lst))

\* all sequences over S of length at most n
SeqUpTo(S, n) == UNION {[1..m -> S] : m \in 0..n}

\* str.startswith(t), str.endswith(t)
StartsWith(s, t) == Len(s) >= Len(t) /\ SubSeq(s, 1, Len(t)) = t
EndsWith(s, t) == Len(s) >= Len(t) /\ SubSeq(s, Len(s) - Len(t) + 1, Len(s)) = t

\* ------------------------------------------------- python: return and raise
\* The outcome of evaluating a call: a returned value, or a raised
\* exception (its class and str(e)); calls is the list of provider calls
\* made on the way, in order.
Return(v, calls) == [kind |-> "return", value |-> v, calls |-> calls]
Raise(exc, text, calls) == [kind |-> "raise", exc |-> exc, text |-> text, calls |-> calls]

\* --------------------------------------------------------------- documents
\* langchain Document: page_content and metadata
Doc(c, src) == [page_content |-> c, metadata |-> [source |-> src]]

DocPool == {Doc("Requirement A", "a.pdf"), Doc("Requirement A", "b.pdf"),
            Doc("Requirement B", "a.pdf")}

\* ----------------------------------------------------------------- history
\* One history entry. form is how the caller built it: "dict" is the
\* {"role": ..., "content": ...} mapping main.py builds, "object" is an
\* object with .role/.content attributes (the pydantic ChatMessage).
Msg(form, role, content) == [form |-> form, role |-> role, content |-> content]

Forms == {"dict", "object"}

Turns == {[role |-> "user", content |-> "hola"],
          [role |-> "assistant", content |-> "buen dia"],
          [role |-> "system", content |-> "nota"]}

\* the histories a caller can hand over: every entry built the same way
Histories(n) ==
    {[i \in DOMAIN h |-> Msg(f, h[i].role, h[i].content)] :
        h \in SeqUpTo(Turns, n), f \in Forms}

\* a conversation of four turns, oldest first, and its suffixes in both forms
Conversation ==
    << [role |-> "system", content |-> "nota"], [role |-> "user", content |-> "hola"],
       [role |-> "assistant", content |-> "buen dia"], [role |-> "user", content |-> "becas"] >>

HistorySamples ==
    {[i \in 1..n |-> LET t == Conversation[Len(Conversation) - n + i]
                     IN  Msg(f, t.role, t.content)] :
        n \in 0..Len(Conversation), f \in Forms}

Questions == {"requisitos", " becas "}

\* msg['role'] / msg['content']: subscripting works on a mapping only
Subscript(msg, key, calls) ==
    IF msg.form = "dict"
    THEN Return(msg[key], calls)
    ELSE Raise("TypeError", "'ChatMessage' object is not subscriptable", calls)

\* msg.content: attribute access works on an object only
Attribute(msg, key, calls) ==
    IF msg.form = "object"
    THEN Return(msg[key], calls)
    ELSE Raise("AttributeError", "'dict' object has no attribute '" \o key \o "'", calls)

\* ------------------------------------------------------------------ providers
\* What one call of llm.invoke does: returns a response whose .content is a
\* completion text, or raises (provider error, timeout, malformed response).
Completions == {"", "respuesta"}
ErrorTexts == {"Request timed out.", "Invalid response object"}

LLMOutcomes ==
    {[kind |-> "return", content |-> c] : c \in Completions}
    \cup {[kind |-> "raise", text |-> t] : t \in ErrorTexts}

\* What one call of retriever.invoke / db.similarity_search does: returns at
\* most n documents, or raises (embedding or store error).
StoreOutcomes(n) ==
    {[kind |-> "return", docs |-> d] : d \in SeqUpTo(DocPool, n)}
    \cup {[kind |-> "raise", text |-> "Connection error."]}

\* langchain messages
SystemMessage(c) == [type |-> "system", content |-> c]
HumanMessage(c) == [type |-> "human", content |-> c]
AIMessage(c) == [type |-> "ai", content |-> c]

\* llm.invoke(input=messages), doing what outcome o says; the call is logged
llm_invoke(messages, o, calls) ==
    IF o.kind = "return"
    THEN Return([content |-> o.content],
                Append(calls, [provider |-> "llm", input |-> messages]))
    ELSE Raise("APIError", o.text,
               Append(calls, [provider |-> "llm", input |-> messages]))

\* the depth of the retriever when RETRIEVER_K is not set (core.py:89) and the
\* depth the text search is called with (core.py:297)
RetrieverK == 10
TextSearchK == 5

\* retriever.invoke(input=query)
retriever_invoke(query, o, calls) ==
    IF o.kind = "return"
    THEN Return(o.docs, Append(calls, [provider |-> "retriever", input |-> query]))
    ELSE Raise("APIConnectionError", o.text,
               Append(calls, [provider |-> "retriever", input |-> query]))

\* db.similarity_search(query, k=5)
db_similarity_search(query, o, calls) ==
    IF o.kind = "return"
    THEN Return(o.docs, Append(calls, [provider |-> "db", input |-> query, k |-> TextSearchK]))
    ELSE Raise("APIConnectionError", o.text,
               Append(calls, [provider |-> "db", input |-> query, k |-> TextSearchK]))

\* response.content of the response a chat call returned
response_content(response) ==
    IF response.kind = "raise" THEN response
    ELSE Return(response.value.content, response.calls)

\* ------------------------------------------------- core.py: consultar_llm
\* core.py:206-212, the fixed part of the system message
SystemPrompt ==
    "Eres un Chatbot asistente de la Universidad del Chubut. "
    \o "Responde usando solo la información del siguiente contexto, teniendo en cuenta tambien el historial de conversacion. "
    \o "Usa un tono formal y profesional. "
    \o "No inventes información y responde solo con datos verificados. "
    \o "Si la información no es suficiente, indícalo. "
    \o "Contexto: "

\* [doc.page_content for doc in docs]
page_contents(docs) == [i \in 1..Len(docs) |-> docs[i].page_content]

\* mutant of context_block: the contents joined by spaces
context_block_spaces(context_docs) == join(" ", page_contents(context_docs))

\* core.py:202, context = "\n".join([doc.page_content for doc in context_docs])
context_block(context_docs) == join("\n", page_contents(context_docs))

\* core.py:205-214, the system message with the context block embedded
system_message(context_docs) == SystemMessage(SystemPrompt \o context_block(context_docs))

\* mutant of append_msg: an entry of any other role is kept as a user message
append_msg_any_role(messages, msg, role) ==
    IF role = "assistant" THEN Append(messages, AIMessage(msg.content))
    ELSE Append(messages, HumanMessage(msg.content))

\* core.py:219-222, one turn of the loop: a user or an assistant entry is
\* appended with its content, an entry of any other role is skipped
append_msg(messages, msg, role) ==
    IF role = "user" THEN Append(messages, HumanMessage(msg.content))
    ELSE IF role = "assistant" THEN Append(messages, AIMessage(msg.content))
    ELSE messages

\* core.py:217-222, the loop over history; msg['role'] raises on an entry
\* that is not a mapping
RECURSIVE append_history(_, _)
append_history(messages, history) ==
    IF Len(history) = 0 THEN Return(messages, <<>>)
    ELSE IF Subscript(Head(history), "role", <<>>).kind = "raise"
    THEN Subscript(Head(history), "role", <<>>)
    ELSE append_history(append_msg(messages, Head(history),
                                   Subscript(Head(history), "role", <<>>).value),
                        Tail(history))

\* mutant of consultar_llm_invoke: a call that fails is made a second time
consultar_llm_invoke_retry(built, question, o) ==
    IF built.kind = "raise" THEN built
    ELSE IF o.kind = "raise"
    THEN response_content(
             llm_invoke(Append(built.value, HumanMessage(question)), o,
                        llm_invoke(Append(built.value, HumanMessage(question)), o, <<>>).calls))
    ELSE response_content(llm_invoke(Append(built.value, HumanMessage(question)), o, <<>>))

\* core.py:225-232: the question is appended, the chat call made and the
\* content of its response returned
consultar_llm_invoke(built, question, o) ==
    IF built.kind = "raise" THEN built
    ELSE response_content(llm_invoke(Append(built.value, HumanMessage(question)), o, <<>>))

\* core.py:201-232, the body of the try block; o is what llm.invoke does
consultar_llm_try(context_docs, question, history, o) ==
    consultar_llm_invoke(append_history(<<system_message(context_docs)>>, history),
                         question, o)

\* mutant of consultar_llm_except: the exception goes through
consultar_llm_except_reraise(r) == r

\* mutant of consultar_llm_except: the apology is left out
consultar_llm_except_silent(r) ==
    IF r.kind = "raise" THEN Return("", r.calls) ELSE r

\* core.py:234-236: except Exception returns the apology with str(e)
consultar_llm_except(r) ==
    IF r.kind = "raise"
    THEN Return("Lo siento, ocurrió un error: " \o r.text, r.calls)
    ELSE r

\* core.py:188-236
consultar_llm(context_docs, question, history, o) ==
    consultar_llm_except(consultar_llm_try(context_docs, question, history, o))

\* ------------------------------------------- core.py: reformular_pregunta
\* repr() of one history entry, as the f-string of core.py:256 prints it
repr_msg(msg) ==
    IF msg.form = "dict"
    THEN "{'role': '" \o msg.role \o "', 'content': '" \o msg.content \o "'}"
    ELSE "ChatMessage(role='" \o msg.role \o "', content='" \o msg.content \o "')"

\* repr() of a list
repr_list(lst) == "[" \o join(", ", [i \in 1..Len(lst) |-> repr_msg(lst[i])]) \o "]"

ReformulationPrompt ==
    "Reformula la pregunta del humano teniendo en cuenta el contexto y el historial, tu respuesta se utilizara para recuperar informacion de la base vectorial y contestar la pregunta del humano."

\* core.py:254-258, the three messages of the reformulation call
reformulation_messages(history, question) ==
    << SystemMessage(ReformulationPrompt),
       HumanMessage("Historial: " \o repr_list(last3(history))),
       HumanMessage("Pregunta: " \o question) >>

\* mutant of reformular_pregunta_try: an empty rewrite is replaced by the
\* question
reformular_pregunta_try_checked(history, question, o) ==
    IF o.kind = "return" /\ o.content = ""
    THEN Return(question, <<[provider |-> "llm",
                             input |-> reformulation_messages(history, question)]>>)
    ELSE response_content(llm_invoke(reformulation_messages(history, question), o, <<>>))

\* core.py:254-262, the body of the try block
reformular_pregunta_try(history, question, o) ==
    response_content(llm_invoke(reformulation_messages(history, question), o, <<>>))

\* mutant of reformular_pregunta_except: an empty query instead of the question
reformular_pregunta_except_empty(r, question) ==
    IF r.kind = "raise" THEN Return("", r.calls) ELSE r

\* mutant of reformular_pregunta_except: the exception goes through
reformular_pregunta_except_reraise(r, question) == r

\* core.py:263-265: except Exception returns the original question
reformular_pregunta_except(r, question) ==
    IF r.kind = "raise" THEN Return(question, r.calls) ELSE r

\* core.py:251-265
reformular_pregunta(history, question, o) ==
    reformular_pregunta_except(reformular_pregunta_try(history, question, o), question)

\* ------------------------------------------ core.py: reordenar_documentos
\* What one relevance call returns as its judgment text.
Judgments == {"1", "10", "5"}

RankOutcomes ==
    {[kind |-> "return", content |-> c] : c \in Judgments}
    \cup {[kind |-> "raise", text |-> "Request timed out."]}

\* ord() of the characters that occur in Judgments
ord(ch) == CASE ch = "0" -> 48 [] ch = "1" -> 49 [] ch = "5" -> 53

\* mutant of str_lt: the judgments compared as numbers
num_lt(a, b) ==
    \/ Len(a) < Len(b)
    \/ Len(a) = Len(b) /\ Len(a) > 0 /\ ord(SubSeq(a, 1, 1)) < ord(SubSeq(b, 1, 1))

\* a < b on str: by code point, a proper prefix is smaller
RECURSIVE str_lt(_, _)
str_lt(a, b) ==
    IF Len(b) = 0 THEN FALSE
    ELSE IF Len(a) = 0 THEN TRUE
    ELSE IF ord(SubSeq(a, 1, 1)) # ord(SubSeq(b, 1, 1))
    THEN ord(SubSeq(a, 1, 1)) < ord(SubSeq(b, 1, 1))
    ELSE str_lt(SubSeq(a, 2, Len(a)), SubSeq(b, 2, Len(b)))

\* core.py:272-276, the messages of the relevance call for one document
relevance_messages(query, doc) ==
    << SystemMessage("Evalúa la relevancia del documento."),
       HumanMessage("Consulta: " \o query),
       HumanMessage("Documento: " \o doc.page_content) >>

\* the key a relevance call returned joins the keys, a raise goes through
append_key(keys, r) ==
    IF r.kind = "raise" THEN r ELSE Return(Append(keys, r.value), r.calls)

\* core.py:272-276, the key function, applied to every document in list
\* order before any comparison; the first call that raises ends the sort.
\* keyed is the outcome so far: the keys of the documents already judged.
RECURSIVE rank_keys(_, _, _, _)
rank_keys(query, documentos, outcomes, keyed) ==
    IF keyed.kind = "raise" \/ Len(keyed.value) = Len(documentos) THEN keyed
    ELSE rank_keys(query, documentos, outcomes,
                   append_key(keyed.value,
                              response_content(
                                  llm_invoke(relevance_messages(
                                                 query, documentos[Len(keyed.value) + 1]),
                                             outcomes[Len(keyed.value) + 1],
                                             keyed.calls))))

\* mutant of insert_desc: the item goes before the items of equal key
insert_desc_before_equal(acc, item) ==
    SubSeq(acc, 1, Cardinality({j \in 1..Len(acc) : str_lt(item.key, acc[j].key)}))
    \o <<item>>
    \o SubSeq(acc, Cardinality({j \in 1..Len(acc) : str_lt(item.key, acc[j].key)}) + 1,
              Len(acc))

\* sorted(..., reverse=True) is stable: the item goes after every item whose
\* key is greater or equal
insert_desc(acc, item) ==
    SubSeq(acc, 1, Cardinality({j \in 1..Len(acc) : ~str_lt(acc[j].key, item.key)}))
    \o <<item>>
    \o SubSeq(acc, Cardinality({j \in 1..Len(acc) : ~str_lt(acc[j].key, item.key)}) + 1,
              Len(acc))

RECURSIVE sorted_desc(_, _)
sorted_desc(items, acc) ==
    IF Len(items) = 0 THEN acc
    ELSE sorted_desc(Tail(items), insert_desc(acc, Head(items)))

\* the documents of a list of (key, document) items
item_docs(items) == [i \in 1..Len(items) |-> items[i].doc]

\* core.py:270-278, sorted(documentos, key=..., reverse=True) once every key
\* is known
sorted_by_key(documentos, keyed) ==
    IF keyed.kind = "raise" THEN keyed
    ELSE Return(item_docs(sorted_desc([i \in 1..Len(documentos) |->
                                          [key |-> keyed.value[i], doc |-> documentos[i]]],
                                      <<>>)),
                keyed.calls)

\* core.py:270-279, the body of the try block; outcomes[i] is what the
\* relevance call for documentos[i] does
reordenar_documentos_try(query, documentos, outcomes) ==
    sorted_by_key(documentos, rank_keys(query, documentos, outcomes, Return(<<>>, <<>>)))

\* mutant of reordenar_documentos_except: no documents instead of the input
reordenar_documentos_except_empty(r, documentos) ==
    IF r.kind = "raise" THEN Return(<<>>, r.calls) ELSE r

\* core.py:280-282: except Exception returns the list it was given
reordenar_documentos_except(r, documentos) ==
    IF r.kind = "raise" THEN Return(documentos, r.calls) ELSE r

\* core.py:267-282
reordenar_documentos(query, documentos, outcomes) ==
    reordenar_documentos_except(reordenar_documentos_try(query, documentos, outcomes),
                                documentos)

\* ------------------------------------------------- core.py: deduplication
\* mutant of dict_by_content: a key keeps the value inserted first
RECURSIVE dict_keep_first(_, _, _)
dict_keep_first(docs, keys, vals) ==
    IF Len(docs) = 0 THEN [keys |-> keys, vals |-> vals]
    ELSE IF Head(docs).page_content \in DOMAIN vals
    THEN dict_keep_first(Tail(docs), keys, vals)
    ELSE dict_keep_first(Tail(docs), Append(keys, Head(docs).page_content),
                         vals @@ (Head(docs).page_content :> Head(docs)))

\* mutant of dict_by_content: a key that is bound again moves to the end
RECURSIVE dict_move_to_end(_, _, _)
dict_move_to_end(docs, keys, vals) ==
    IF Len(docs) = 0 THEN [keys |-> keys, vals |-> vals]
    ELSE dict_move_to_end(
             Tail(docs),
             Append(SelectSeq(keys, LAMBDA k : k # Head(docs).page_content),
                    Head(docs).page_content),
             [c \in DOMAIN vals \cup {Head(docs).page_content} |->
                 IF c = Head(docs).page_content THEN Head(docs) ELSE vals[c]])

\* {doc.page_content: doc for doc in docs}: a dict keeps a key at the
\* position of its first insertion and rebinds it to the value inserted last
RECURSIVE dict_by_content(_, _, _)
dict_by_content(docs, keys, vals) ==
    IF Len(docs) = 0 THEN [keys |-> keys, vals |-> vals]
    ELSE IF Head(docs).page_content \in DOMAIN vals
    THEN dict_by_content(Tail(docs), keys,
                         [vals EXCEPT ![Head(docs).page_content] = Head(docs)])
    ELSE dict_by_content(Tail(docs), Append(keys, Head(docs).page_content),
                         vals @@ (Head(docs).page_content :> Head(docs)))

\* mutant of dict_values: the values in the reverse order of the keys
dict_values_reversed(d) ==
    [i \in 1..Len(d.keys) |-> d.vals[d.keys[Len(d.keys) + 1 - i]]]

\* list(d.values()): the values in the order of the keys
dict_values(d) == [i \in 1..Len(d.keys) |-> d.vals[d.keys[i]]]

\* mutant of documentos_unicos: every document is kept
documentos_todos(docs) == docs

\* core.py:300-302 and 367-369, list({doc.page_content: doc for doc in docs}.values())
documentos_unicos(docs) == dict_values(dict_by_content(docs, <<>>, <<>>))

\* ------------------------------------- core.py: the retrieval strategies
\* mutant of except_empty: the exception goes through
except_reraise(r) == r

\* except Exception: return [], the handler of every retrieval function
except_empty(r) == IF r.kind = "raise" THEN Return(<<>>, r.calls) ELSE r

\* core.py:180-183, the body of the try block of the first definition of
\* recuperar_documentos(query)
recuperar_documentos_direct_try(query, o) == retriever_invoke(query, o, <<>>)

\* core.py:169-186
recuperar_documentos_direct(query, o) ==
    except_empty(recuperar_documentos_direct_try(query, o))

\* core.py:288, [msg.content for msg in history[-3:]]; msg.content raises on
\* an entry that has no such attribute
RECURSIVE msg_contents(_, _)
msg_contents(msgs, acc) ==
    IF Len(msgs) = 0 THEN Return(acc, <<>>)
    ELSE IF Attribute(Head(msgs), "content", <<>>).kind = "raise"
    THEN Attribute(Head(msgs), "content", <<>>)
    ELSE msg_contents(Tail(msgs), Append(acc, Attribute(Head(msgs), "content", <<>>).value))

\* " ".join(contents)
joined_contents(contents) ==
    IF contents.kind = "raise" THEN contents
    ELSE Return(join(" ", contents.value), <<>>)

\* core.py:288, " ".join([...]) if history else ""
historial_completo(history) ==
    IF Len(history) > 0 THEN joined_contents(msg_contents(last3(history), <<>>))
    ELSE Return("", <<>>)

\* core.py:291, f"{historial_completo} {query}".strip()
consulta_enriquecida(historial, query) ==
    IF historial.kind = "raise" THEN historial
    ELSE Return(strip(historial.value \o " " \o query), <<>>)

\* mutant of hibrido_merge: when the text search fails the similarity results
\* are returned
hibrido_merge_partial(documentos_semanticos, documentos_texto) ==
    IF documentos_texto.kind = "raise"
    THEN Return(documentos_unicos(documentos_semanticos.value), documentos_texto.calls)
    ELSE Return(documentos_unicos(documentos_semanticos.value \o documentos_texto.value),
                documentos_texto.calls)

\* core.py:300-302, the two results concatenated and deduplicated
hibrido_merge(documentos_semanticos, documentos_texto) ==
    IF documentos_texto.kind = "raise" THEN documentos_texto
    ELSE Return(documentos_unicos(documentos_semanticos.value \o documentos_texto.value),
                documentos_texto.calls)

\* mutant of hibrido_texto: the text search is left out
hibrido_texto_skipped(consulta, documentos_semanticos, o2) ==
    IF documentos_semanticos.kind = "raise" THEN documentos_semanticos
    ELSE Return(documentos_unicos(documentos_semanticos.value), documentos_semanticos.calls)

\* core.py:297, the text search, made once the similarity search returned
hibrido_texto(consulta, documentos_semanticos, o2) ==
    IF documentos_semanticos.kind = "raise" THEN documentos_semanticos
    ELSE hibrido_merge(documentos_semanticos,
                       db_similarity_search(consulta, o2, documentos_semanticos.calls))

\* core.py:294-302, both searches with the enriched query
hibrido_search(consulta, o1, o2) ==
    IF consulta.kind = "raise" THEN consulta
    ELSE hibrido_texto(consulta.value, retriever_invoke(consulta.value, o1, <<>>), o2)

\* core.py:286-302, the body of the try block; o1 is what retriever.invoke
\* does, o2 what db.similarity_search does
recuperar_documentos_hibrido_try(query, history, o1, o2) ==
    hibrido_search(consulta_enriquecida(historial_completo(history), query), o1, o2)

\* mutant of recuperar_documentos_hibrido: no except clause
recuperar_documentos_hibrido_unguarded(query, history, o1, o2) ==
    recuperar_documentos_hibrido_try(query, history, o1, o2)

\* core.py:284-305
recuperar_documentos_hibrido(query, history, o1, o2) ==
    except_empty(recuperar_documentos_hibrido_try(query, history, o1, o2))

\* str.split("\n") followed by filter(None, ...): the non-empty lines
RECURSIVE nonempty_lines(_, _, _)
nonempty_lines(text, cur, acc) ==
    IF Len(text) = 0 THEN (IF cur = "" THEN acc ELSE Append(acc, cur))
    ELSE IF SubSeq(text, 1, 1) = "\n"
    THEN nonempty_lines(SubSeq(text, 2, Len(text)), "",
                        IF cur = "" THEN acc ELSE Append(acc, cur))
    ELSE nonempty_lines(SubSeq(text, 2, Len(text)), cur \o SubSeq(text, 1, 1), acc)

\* the alternative phrasings in a generated text, one per line
generated_lines(text) == nonempty_lines(strip(text), "", <<>>)

\* What the query-generation chat call of the multi-query retriever does:
\* returns a text with one alternative phrasing per line, or raises.
GenOutcomes ==
    {[kind |-> "return", content |-> c] : c \in {"", "becas UDC"}}
    \cup {[kind |-> "raise", text |-> "Request timed out."]}

\* the number of retriever calls a generation outcome leads to: one per
\* generated line plus one for the original query, none when it raises
NumQueries(gen) ==
    IF gen.kind = "raise" THEN 0 ELSE Len(generated_lines(gen.content)) + 1

\* documents.extend(docs) with the documents a retriever call returned
extend_documents(found, r) ==
    IF r.kind = "raise" THEN r ELSE Return(found.value \o r.value, r.calls)

\* for query in queries: documents.extend(retriever.invoke(query)); found is
\* the outcome so far, the first call that raises ends the loop
RECURSIVE retrieve_documents(_, _, _)
retrieve_documents(queries, rs, found) ==
    IF found.kind = "raise" \/ Len(queries) = 0 THEN found
    ELSE retrieve_documents(Tail(queries), Tail(rs),
                            extend_documents(found,
                                             retriever_invoke(Head(queries), Head(rs),
                                                              found.calls)))

\* the retriever's own union: a document equal (content and metadata) to an
\* earlier one is dropped
RECURSIVE unique_from(_, _)
unique_from(documents, i) ==
    IF i > Len(documents) THEN <<>>
    ELSE (IF \A j \in 1..(i - 1) : documents[j] # documents[i]
          THEN <<documents[i]>> ELSE <<>>) \o unique_from(documents, i + 1)

unique_union(found) ==
    IF found.kind = "raise" THEN found
    ELSE Return(unique_from(found.value, 1), found.calls)

\* the sub-queries: the generated phrasings, then the original query
\* (include_original=True)
sub_queries(generated, query) == Append(generated_lines(generated.value), query)

\* mutant of multiquery_retrieve: when the generation fails the original query
\* is searched on its own, in a store that holds a matching document
multiquery_retrieve_fallback(generated, query, rs) ==
    IF generated.kind = "raise"
    THEN unique_union(retrieve_documents(
                          <<query>>,
                          <<[kind |-> "return", docs |-> <<Doc("Requirement A", "a.pdf")>>]>>,
                          Return(<<>>, generated.calls)))
    ELSE unique_union(retrieve_documents(sub_queries(generated, query), rs,
                                         Return(<<>>, generated.calls)))

\* one retriever call per sub-query, once the phrasings are generated
multiquery_retrieve(generated, query, rs) ==
    IF generated.kind = "raise" THEN generated
    ELSE unique_union(retrieve_documents(sub_queries(generated, query), rs,
                                         Return(<<>>, generated.calls)))

\* core.py:357-364, MultiQueryRetriever.from_llm(retriever, llm,
\* include_original=True).get_relevant_documents(query): one chat call that
\* generates the phrasings, one retriever call per sub-query, the union of
\* the results
multiquery_get_relevant_documents(query, gen, rs) ==
    multiquery_retrieve(response_content(llm_invoke(<<HumanMessage(query)>>, gen, <<>>)),
                        query, rs)

\* core.py:367-369, the deduplication of what the retriever returned
multiquery_unicos(documentos_multiquery) ==
    IF documentos_multiquery.kind = "raise" THEN documentos_multiquery
    ELSE Return(documentos_unicos(documentos_multiquery.value), documentos_multiquery.calls)

\* core.py:355-369, the body of the try block
recuperar_documentos_multiquery_try(query, history, gen, rs) ==
    multiquery_unicos(multiquery_get_relevant_documents(query, gen, rs))

\* core.py:339-373
recuperar_documentos_multiquery(query, history, gen, rs) ==
    except_empty(recuperar_documentos_multiquery_try(query, history, gen, rs))

\* ------------------------------- core.py: recuperar_documentos(query, history)
\* mutant of after_calls: the later step's calls are made first
calls_before(calls, r) == [r EXCEPT !.calls = r.calls \o calls]

\* the provider calls of an earlier step come before those of r
after_calls(calls, r) == [r EXCEPT !.calls = calls \o r.calls]

\* core.py:324, the multi-query strategy applied to the reformulated query
\* (hybrid retrieval and re-ranking are commented out, core.py:325-328)
retrieve_reformulated(q, history, gen, rs) ==
    IF q.kind = "raise" THEN q
    ELSE after_calls(q.calls, recuperar_documentos_multiquery(q.value, history, gen, rs))

\* core.py:318-330, the body of the try block
recuperar_documentos_try(query, history, reform, gen, rs) ==
    retrieve_reformulated(reformular_pregunta(history, query, reform), history, gen, rs)

\* core.py:312-333
recuperar_documentos(query, history, reform, gen, rs) ==
    except_empty(recuperar_documentos_try(query, history, reform, gen, rs))

\* The module-level name recuperar_documentos: the def of core.py:312 rebinds
\* the name the def of core.py:169 bound, so the function main.py imports
\* takes (query, history). A call binds its positional arguments to the two
\* parameters; neither has a default.
call_recuperar_documentos(args, reform, gen, rs) ==
    IF Len(args) = 2
    THEN recuperar_documentos(args[1], args[2], reform, gen, rs)
    ELSE IF Len(args) = 1
    THEN Raise("TypeError",
               "recuperar_documentos() missing 1 required positional argument: 'history'",
               <<>>)
    ELSE Raise("TypeError",
               "recuperar_documentos() takes 2 positional arguments", <<>>)

\* ------------------------------------------------------ main.py: endpoints
\* main.py:29-36, Question: question is a str of min_length 1
valid_Question(body) == Len(body.question) >= 1

\* main.py:38-61, ChatRequest: question of min_length 1, every history entry
\* a ChatMessage whose role matches ^(user|assistant)$ and whose content has
\* min_length 1
valid_ChatRequest(body) ==
    /\ Len(body.question) >= 1
    /\ \A i \in 1..Len(body.history) :
          /\ body.history[i].role \in {"user", "assistant"}
          /\ Len(body.history[i].content) >= 1

\* a request body the framework rejects before the handler runs
ValidationError == [status |-> 422, detail |-> "validation error"]

\* raise HTTPException(status_code, detail): the framework answers with it
HTTPException(code, detail) == [status |-> code, detail |-> detail]

\* main.py:182-189, the try block of recuperar_docs and its except clause
recuperar_docs_response(documentos) ==
    IF documentos.kind = "raise"
    THEN HTTPException(500, "Error al recuperar documentos: " \o documentos.text)
    ELSE [status |-> 200, documentos |-> page_contents(documentos.value),
          calls |-> documentos.calls]

\* main.py:163-189, POST /recuperar_documentos
recuperar_docs(body, reform, gen, rs) ==
    IF ~valid_Question(body) THEN ValidationError
    ELSE IF strip(body.question) = ""
    THEN HTTPException(400, "La pregunta no puede estar vacía")
    ELSE recuperar_docs_response(
             call_recuperar_documentos(<<body.question>>, reform, gen, rs))

\* main.py:225, [{"role": msg.role, "content": msg.content} for msg in request.history]
as_dicts(history) ==
    [i \in 1..Len(history) |-> Msg("dict", history[i].role, history[i].content)]

\* main.py:228-233, the reply, or the except clause of consultar
consultar_response(respuesta) ==
    IF respuesta.kind = "raise"
    THEN HTTPException(500, "Error en la consulta: " \o respuesta.text)
    ELSE [status |-> 200, reply |-> respuesta.value, calls |-> respuesta.calls]

\* main.py:222-226, consultar_llm on the retrieved context
consultar_answer(contexto, body, answer) ==
    IF contexto.kind = "raise" THEN contexto
    ELSE after_calls(contexto.calls,
                     consultar_llm(contexto.value, body.question,
                                   as_dicts(body.history), answer))

\* main.py:198-233, POST /consultar
consultar(body, reform, gen, rs, answer) ==
    IF ~valid_ChatRequest(body) THEN ValidationError
    ELSE IF strip(body.question) = ""
    THEN HTTPException(400, "La pregunta no puede estar vacía")
    ELSE consultar_response(
             consultar_answer(call_recuperar_documentos(<<body.question>>, reform, gen, rs),
                              body, answer))

\* ------------------------------------------------- core.py: start-up
\* an environment variable: not set, or set to a string
Unset == [set |-> FALSE]
Set(v) == [set |-> TRUE, value |-> v]

\* os.getenv(name, default)
getenv(var, default) == IF var.set THEN var.value ELSE default

\* "not os.getenv(name)": the variable is not set, or set to the empty string
is_falsy(var) == ~var.set \/ var.value = ""

Digits == "0123456789"
is_digit(ch) == \E i \in 1..Len(Digits) : SubSeq(Digits, i, i) = ch
digit_value(ch) == (CHOOSE i \in 1..Len(Digits) : SubSeq(Digits, i, i) = ch) - 1
all_digits(s) == Len(s) > 0 /\ \A i \in 1..Len(s) : is_digit(SubSeq(s, i, i))

\* the value of a string of decimal digits
RECURSIVE digits_value(_, _)
digits_value(s, acc) ==
    IF Len(s) = 0 THEN acc
    ELSE digits_value(SubSeq(s, 2, Len(s)), 10 * acc + digit_value(SubSeq(s, 1, 1)))

has_sign(s) == Len(s) > 0 /\ SubSeq(s, 1, 1) \in {"-", "+"}
unsigned(s) == IF has_sign(s) THEN SubSeq(s, 2, Len(s)) ELSE s
sign_of(s) == IF Len(s) > 0 /\ SubSeq(s, 1, 1) = "-" THEN 0 - 1 ELSE 1

\* int(s): surrounding whitespace and one sign are accepted, anything but
\* decimal digits raises ValueError
int(s) ==
    IF all_digits(unsigned(strip(s)))
    THEN Return(sign_of(strip(s)) * digits_value(unsigned(strip(s)), 0), <<>>)
    ELSE Raise("ValueError", "invalid literal for int() with base 10: '" \o s \o "'", <<>>)

\* the position of the decimal point of a literal, 0 when it has none
point_at(s) ==
    IF \E i \in 1..Len(s) : SubSeq(s, i, i) = "."
    THEN CHOOSE i \in 1..Len(s) : SubSeq(s, i, i) = "."
    ELSE 0

whole_part(s) == IF point_at(s) = 0 THEN s ELSE SubSeq(s, 1, point_at(s) - 1)
fraction_part(s) == IF point_at(s) = 0 THEN "" ELSE SubSeq(s, point_at(s) + 1, Len(s))

is_decimal(s) ==
    /\ Len(whole_part(s)) + Len(fraction_part(s)) > 0
    /\ \A i \in 1..Len(s) : i # point_at(s) => is_digit(SubSeq(s, i, i))

\* float(s) for decimal literals: the value is digits * 10^-places
float(s) ==
    IF is_decimal(unsigned(strip(s)))
    THEN Return([digits |-> sign_of(strip(s))
                              * digits_value(whole_part(unsigned(strip(s)))
                                             \o fraction_part(unsigned(strip(s))), 0),
                 places |-> Len(fraction_part(unsigned(strip(s))))], <<>>)
    ELSE Raise("ValueError", "could not convert string to float: '" \o s \o "'", <<>>)

\* core.py:81-90, the configuration dict; the conversions are evaluated in
\* the order of the dict literal and the first that raises ends the function
config_dict(environ) ==
    IF float(getenv(environ.TEMPERATURE, "0.7")).kind = "raise"
    THEN float(getenv(environ.TEMPERATURE, "0.7"))
    ELSE IF int(getenv(environ.MAX_TOKENS, "5000")).kind = "raise"
    THEN int(getenv(environ.MAX_TOKENS, "5000"))
    ELSE IF int(getenv(environ.RETRIEVER_K, "10")).kind = "raise"
    THEN int(getenv(environ.RETRIEVER_K, "10"))
    ELSE Return([OPENAI_API_KEY |-> environ.OPENAI_API_KEY.value,
                 CHROMA_PATH |-> environ.CHROMA_PATH,
                 TEMPERATURE |-> float(getenv(environ.TEMPERATURE, "0.7")).value,
                 MAX_TOKENS |-> int(getenv(environ.MAX_TOKENS, "5000")).value,
                 RETRIEVER_K |-> int(getenv(environ.RETRIEVER_K, "10")).value], <<>>)

\* core.py:43-90; env_file says whether .env exists, environ is the
\* environment once load_dotenv has read it
load_environment(env_file, environ) ==
    IF ~env_file
    THEN Raise("ValueError", "Archivo .env no encontrado en la ruta actual", <<>>)
    ELSE IF is_falsy(environ.OPENAI_API_KEY)
    THEN Raise("ValueError", "OPENAI_API_KEY no configurada en .env", <<>>)
    ELSE IF ~StartsWith(environ.OPENAI_API_KEY.value, "sk-")
    THEN Raise("ValueError", "OPENAI_API_KEY con formato incorrecto", <<>>)
    ELSE config_dict(environ)

\* What a start-up call to a provider does: the Chroma constructor opening
\* the store, embeddings.embed_query("test") reaching the embedding provider.
InitOutcomes ==
    {[kind |-> "return"], [kind |-> "raise", text |-> "Connection error."]}

\* core.py:119-122, Chroma(persist_directory=..., embedding_function=...)
Chroma(persist_directory, o, calls) ==
    IF o.kind = "return"
    THEN Return([persist_directory |-> persist_directory],
                Append(calls, [provider |-> "db", input |-> persist_directory]))
    ELSE Raise("StoreError", o.text,
               Append(calls, [provider |-> "db", input |-> persist_directory]))

\* core.py:125-128, db.as_retriever(search_type="similarity",
\* search_kwargs={"k": config['RETRIEVER_K']}): k is stored as given
as_retriever(search_type, k) == [search_type |-> search_type, k |-> k]

\* core.py:131-136, ChatOpenAI(...)
ChatOpenAI(config) ==
    [temperature |-> config.TEMPERATURE, max_tokens |-> config.MAX_TOKENS]

\* core.py:124-139, the retriever and the chat model, once the store is open
services_of(config, db) ==
    IF db.kind = "raise" THEN db
    ELSE Return([embeddings |-> [openai_api_key |-> config.OPENAI_API_KEY],
                 db |-> db.value,
                 retriever |-> as_retriever("similarity", config.RETRIEVER_K),
                 llm |-> ChatOpenAI(config)], db.calls)

\* core.py:105-139, the body of the try block
initialize_services_try(config, o_db) ==
    IF config.kind = "raise" THEN config
    ELSE IF is_falsy(config.value.CHROMA_PATH)
    THEN Raise("ValueError", "CHROMA_PATH no configurado en .env", <<>>)
    ELSE services_of(config.value, Chroma(config.value.CHROMA_PATH.value, o_db, <<>>))

\* core.py:92-143; the except clause logs and raises again
initialize_services(env_file, environ, o_db) ==
    initialize_services_try(load_environment(env_file, environ), o_db)

\* core.py:154-167, True when the test embedding call returns, False when
\* it raises
test_openai_connection(o_embed, calls) ==
    Return(o_embed.kind = "return",
           Append(calls, [provider |-> "embeddings", input |-> "test"]))

\* mutant of connection_check: a failed test is only logged
connection_check_lenient(services, connected) ==
    Return(services.value, connected.calls)

\* core.py:241-242, if not test_openai_connection(): raise ConnectionError
connection_check(services, connected) ==
    IF ~connected.value
    THEN Raise("ConnectionError", "No se pudo establecer conexión con OpenAI",
               connected.calls)
    ELSE Return(services.value, connected.calls)

\* core.py:148-152 and 241-242: what executing the module does once the
\* services exist
verify_connection(services, o_embed) ==
    IF services.kind = "raise" THEN services
    ELSE connection_check(services, test_openai_connection(o_embed, services.calls))

\* import app.core (main.py:24): the module-level statements of core.py; an
\* exception they raise ends the import, and with it the process start
import_core(env_file, environ, o_db, o_embed) ==
    verify_connection(initialize_services(env_file, environ, o_db), o_embed)

\* ------------------------------------- core.py: effects on the history list
\* mutant of after_slice: del history[:-3], the older entries are removed
after_del_older(lst) == last3(lst)

\* history[-3:] builds a new list; the list it is taken from stays as it is
after_slice(lst) == lst

\* for msg in history, and a comprehension over it, read the entries
after_iteration(lst) == lst

\* sorted(documentos, ...) builds a new list; documentos stays as it is
after_sorted(lst) == lst

\* core.py:251-265, the only use of history is the slice of core.py:256
reformular_pregunta_history(history) == after_slice(history)

\* core.py:188-236, the only use of history is the loop of core.py:217-222
consultar_llm_history(history) == after_iteration(history)

\* core.py:284-305, history is tested, sliced and the slice read (core.py:288)
recuperar_documentos_hibrido_history(history) == after_iteration(after_slice(history))

\* core.py:339-373, the parameter history is not used
recuperar_documentos_multiquery_history(history) == history

\* core.py:312-333, history is passed to reformular_pregunta (core.py:320)
\* and to recuperar_documentos_multiquery (core.py:324)
recuperar_documentos_history(history) ==
    recuperar_documentos_multiquery_history(reformular_pregunta_history(history))

\* ------------------------------------------- monitoring/health.py: health
\* health.py:76-80, the status of the system from the three usage percentages
system_status(cpu, memory, disk) ==
    IF cpu > 90 \/ memory > 90 \/ disk > 90 THEN "critical"
    ELSE IF cpu > 80 \/ memory > 80 \/ disk > 80 THEN "degraded"
    ELSE "healthy"

\* health.py:61-105, _check_system; probe says what psutil measures, or that
\* it raises
check_system(probe) ==
    IF probe.kind = "raise"
    THEN [status |-> "error", cpu_percent |-> 0, memory_used_percent |-> 0,
          disk_used_percent |-> 0]
    ELSE [status |-> system_status(probe.cpu, probe.memory, probe.disk),
          cpu_percent |-> probe.cpu, memory_used_percent |-> probe.memory,
          disk_used_percent |-> probe.disk]

\* health.py:120-124
database_status(path_exists, path_writable) ==
    IF ~path_exists THEN "critical"
    ELSE IF ~path_writable THEN "degraded"
    ELSE "healthy"

\* health.py:107-146, _check_database; os.access is asked only when the
\* path exists
check_database(probe) ==
    IF probe.kind = "raise"
    THEN [status |-> "error", path_exists |-> FALSE, path_writable |-> FALSE]
    ELSE [status |-> database_status(probe.path_exists,
                                     probe.path_exists /\ probe.path_writable),
          path_exists |-> probe.path_exists,
          path_writable |-> probe.path_exists /\ probe.path_writable]

\* health.py:148-174, _check_api; int(os.getenv("WORKERS", 4)) raises on a
\* value that is not a number
check_api(workers) ==
    IF workers.set /\ int(workers.value).kind = "raise"
    THEN [status |-> "error", endpoint_count |-> 0, active_connections |-> 0]
    ELSE [status |-> "healthy", endpoint_count |-> 4, active_connections |-> 0]

\* mutant of overall_status: a check that ended in error counts as critical
overall_status_strict(checks) ==
    IF \E name \in DOMAIN checks : checks[name].status \in {"critical", "error"}
    THEN "unhealthy"
    ELSE IF \E name \in DOMAIN checks : checks[name].status = "degraded"
    THEN "degraded"
    ELSE "healthy"

\* health.py:191-195
overall_status(checks) ==
    IF \E name \in DOMAIN checks : checks[name].status = "critical"
    THEN "unhealthy"
    ELSE IF \E name \in DOMAIN checks : checks[name].status = "degraded"
    THEN "degraded"
    ELSE "healthy"

\* health.py:199-204
HealthResponse(checks) ==
    [overall_status |-> overall_status(checks), checks |-> checks, version |-> "1.0.0"]

\* health.py:176-204, HealthChecker.check_health
check_health(system, database, workers) ==
    HealthResponse([system |-> check_system(system),
                    database |-> check_database(database),
                    api |-> check_api(workers)])

\* --------------------------------------- monitoring/metrics.py: metrics
\* metrics.py:20 and 31, the maxlen of the two deques
max_history == 1000
response_times_maxlen == 1000

\* deque(maxlen=n).append(x): when the deque is full its oldest item is dropped
deque_append(d, x, maxlen) ==
    IF Len(d) < maxlen THEN Append(d, x) ELSE Append(Tail(d), x)

\* metrics.py:20-31, MetricsCollector(); the wall-clock start_time and the
\* timestamps of the history entries are left out
MetricsCollector ==
    [requests_total |-> 0, successful_queries |-> 0, failed_queries |-> 0,
     response_times |-> <<>>, metrics_history |-> <<>>]

\* mutant of record_request: a failed request is counted in the total only
record_request_success_only(self, success, response_time) ==
    [self EXCEPT
        !.requests_total = @ + 1,
        !.successful_queries = IF success THEN @ + 1 ELSE @,
        !.response_times = deque_append(@, response_time, response_times_maxlen),
        !.metrics_history =
            deque_append(@, [success |-> success, response_time |-> response_time],
                         max_history)]

\* metrics.py:33-49, MetricsCollector.record_request
record_request(self, success, response_time) ==
    [self EXCEPT
        !.requests_total = @ + 1,
        !.successful_queries = IF success THEN @ + 1 ELSE @,
        !.failed_queries = IF success THEN @ ELSE @ + 1,
        !.response_times = deque_append(@, response_time, response_times_maxlen),
        !.metrics_history =
            deque_append(@, [success |-> success, response_time |-> response_time],
                         max_history)]

\* metrics.py:76-84, MetricsCollector.reset_metrics
reset_metrics(self) ==
    [self EXCEPT
        !.requests_total = 0, !.successful_queries = 0, !.failed_queries = 0,
        !.response_times = <<>>, !.metrics_history = <<>>]

\* main.py:96-122, metrics_middleware: a request whose processing returns a
\* response is recorded as a success, one whose processing raises as a failure
metrics_middleware(self, outcome, response_time) ==
    record_request(self, outcome = "response", response_time)

\* ------------------------------------------------------------- the machine
VARIABLES
    op,        \* the operation that ran last
    input,     \* its arguments: question, history, documents
    oracle,    \* what the providers did during it: the chat calls' and the
               \* store calls' outcomes, in call order
    result,    \* what a core.py function returned or raised
    response,  \* what an endpoint answered
    heap,      \* the caller's history list, as the operation left it
    threads,   \* the frames of the end-to-end queries in progress, one per
               \* worker thread: its position and its local variables
    metrics    \* the global MetricsCollector: its counters and its deques

vars == <<op, input, oracle, result, response, heap, threads, metrics>>

NoResult == [kind |-> "none"]
NoResponse == [status |-> 0]

Args(q, h, d) == [question |-> q, history |-> h, documents |-> d]
Providers(chat, store) == [chat |-> chat, store |-> store]

\* the caller's history list object
Heap(history) == [history |-> history]

\* the caller's history and document lists
HeapWith(history, documentos) == [history |-> history, documentos |-> documentos]

\* the worker threads that serve queries
Threads == {"t1", "t2"}

\* the frame of a thread that serves no query
NoFrame ==
    [pc |-> "ready", question |-> "", history |-> <<>>, q |-> "", queries |-> <<>>,
     found |-> <<>>, docs |-> <<>>, reply |-> "", chat |-> <<>>, store |-> <<>>]

Init ==
    /\ op = "idle"
    /\ input = Args("", <<>>, <<>>)
    /\ oracle = Providers(<<>>, <<>>)
    /\ result = NoResult
    /\ response = NoResponse
    /\ heap = Heap(<<>>)
    /\ threads = [t \in Threads |-> NoFrame]
    /\ metrics = MetricsCollector

\* The worker is ready for the next call: the functions and the endpoints
\* keep nothing from one call to the next.
Idle ==
    /\ op # "idle"
    /\ op' = "idle"
    /\ heap' = Heap(<<>>)
    /\ UNCHANGED <<threads, metrics>>
    /\ input' = Args("", <<>>, <<>>)
    /\ oracle' = Providers(<<>>, <<>>)
    /\ result' = NoResult
    /\ response' = NoResponse

ConsultarLLM ==
    /\ op = "idle"
    /\ UNCHANGED <<threads, metrics>>
    /\ \E d \in SeqUpTo(DocPool, MaxDocs), q \in Questions,
          h \in Histories(MaxChatHistory), o \in LLMOutcomes :
        /\ heap' = Heap(consultar_llm_history(h))
        /\ op' = "consultar_llm"
        /\ input' = Args(q, h, d)
        /\ oracle' = Providers(<<o>>, <<>>)
        /\ result' = consultar_llm(d, q, h, o)
        /\ response' = NoResponse

ReformularPregunta ==
    /\ op = "idle"
    /\ UNCHANGED <<threads, metrics>>
    /\ \E q \in Questions, h \in Histories(MaxHistory), o \in LLMOutcomes :
        /\ heap' = Heap(reformular_pregunta_history(h))
        /\ op' = "reformular_pregunta"
        /\ input' = Args(q, h, <<>>)
        /\ oracle' = Providers(<<o>>, <<>>)
        /\ result' = reformular_pregunta(h, q, o)
        /\ response' = NoResponse

ReordenarDocumentos ==
    /\ op = "idle"
    /\ UNCHANGED <<threads, metrics>>
    /\ \E q \in Questions, d \in SeqUpTo(DocPool, MaxDocs) :
        \E os \in [1..Len(d) -> RankOutcomes] :
            /\ heap' = HeapWith(<<>>, after_sorted(d))
            /\ op' = "reordenar_documentos"
            /\ input' = Args(q, <<>>, d)
            /\ oracle' = Providers(os, <<>>)
            /\ result' = reordenar_documentos(q, d, os)
            /\ response' = NoResponse

RecuperarDirecto ==
    /\ op = "idle"
    /\ UNCHANGED <<threads, metrics>>
    /\ \E q \in Questions, o \in StoreOutcomes(MaxHits) :
        /\ heap' = Heap(<<>>)
        /\ op' = "recuperar_documentos_direct"
        /\ input' = Args(q, <<>>, <<>>)
        /\ oracle' = Providers(<<>>, <<o>>)
        /\ result' = recuperar_documentos_direct(q, o)
        /\ response' = NoResponse

RecuperarHibrido ==
    /\ op = "idle"
    /\ UNCHANGED <<threads, metrics>>
    /\ \E q \in Questions, h \in HistorySamples,
          o1 \in StoreOutcomes(MaxHits), o2 \in StoreOutcomes(MaxHits) :
        /\ heap' = Heap(recuperar_documentos_hibrido_history(h))
        /\ op' = "recuperar_documentos_hibrido"
        /\ input' = Args(q, h, <<>>)
        /\ oracle' = Providers(<<>>, <<o1, o2>>)
        /\ result' = recuperar_documentos_hibrido(q, h, o1, o2)
        /\ response' = NoResponse

\* the store outcomes a multi-query run needs: one per sub-query
StoreRuns(gen, n) == [1..NumQueries(gen) -> StoreOutcomes(n)]

RecuperarMultiquery ==
    /\ op = "idle"
    /\ UNCHANGED <<threads, metrics>>
    /\ \E q \in Questions, h \in HistorySamples, gen \in GenOutcomes :
        \E rs \in StoreRuns(gen, MaxHits) :
            /\ heap' = Heap(recuperar_documentos_multiquery_history(h))
            /\ op' = "recuperar_documentos_multiquery"
            /\ input' = Args(q, h, <<>>)
            /\ oracle' = Providers(<<gen>>, rs)
            /\ result' = recuperar_documentos_multiquery(q, h, gen, rs)
            /\ response' = NoResponse

RecuperarDocumentos ==
    /\ op = "idle"
    /\ UNCHANGED <<threads, metrics>>
    /\ \E q \in Questions, h \in HistorySamples, reform \in LLMOutcomes,
          gen \in GenOutcomes :
        \E rs \in StoreRuns(gen, MaxPipelineHits) :
            /\ heap' = Heap(recuperar_documentos_history(h))
            /\ op' = "recuperar_documentos"
            /\ input' = Args(q, h, <<>>)
            /\ oracle' = Providers(<<reform, gen>>, rs)
            /\ result' = recuperar_documentos(q, h, reform, gen, rs)
            /\ response' = NoResponse

\* request bodies: the question may be empty or blank, the history is the
\* parsed JSON list (objects), whose roles the framework has yet to validate
RequestQuestions == Questions \cup {"", "  "}
RequestHistories == {h \in HistorySamples : \A i \in 1..Len(h) : h[i].form = "object"}

PostRecuperarDocumentos ==
    /\ op = "idle"
    /\ UNCHANGED <<threads, metrics>>
    /\ \E q \in RequestQuestions, reform \in LLMOutcomes, gen \in GenOutcomes :
        \E rs \in StoreRuns(gen, MaxPipelineHits) :
            /\ heap' = Heap(<<>>)
            /\ op' = "POST /recuperar_documentos"
            /\ input' = Args(q, <<>>, <<>>)
            /\ oracle' = Providers(<<reform, gen>>, rs)
            /\ result' = NoResult
            /\ response' = recuperar_docs([question |-> q], reform, gen, rs)

PostConsultar ==
    /\ op = "idle"
    /\ UNCHANGED <<threads, metrics>>
    /\ \E q \in RequestQuestions, h \in RequestHistories,
          reform \in LLMOutcomes, gen \in GenOutcomes, answer \in LLMOutcomes :
        \E rs \in StoreRuns(gen, MaxPipelineHits) :
            /\ heap' = Heap(h)
            /\ op' = "POST /consultar"
            /\ input' = Args(q, h, <<>>)
            /\ oracle' = Providers(<<reform, gen, answer>>, rs)
            /\ result' = NoResult
            /\ response' = consultar([question |-> q, history |-> h],
                                     reform, gen, rs, answer)

\* what the environment can hold when the process starts
ApiKeys == {Unset, Set(""), Set("sk-test"), Set("pk-test")}
ChromaPaths == {Unset, Set(""), Set("chroma")}
RetrieverKs == {Unset, Set("10"), Set("1"), Set("0"), Set("-1"), Set("muchos")}
MaxTokens == {Unset, Set("256")}
Temperatures == {Unset, Set("0.2"), Set("alta")}

Environs ==
    [OPENAI_API_KEY : ApiKeys, CHROMA_PATH : ChromaPaths, RETRIEVER_K : RetrieverKs,
     MAX_TOKENS : MaxTokens, TEMPERATURE : Temperatures]

\* the process starts: main.py imports app.core
ImportCore ==
    /\ op = "idle"
    /\ UNCHANGED <<threads, metrics>>
    /\ \E env_file \in BOOLEAN, environ \in Environs,
          o_db \in InitOutcomes, o_embed \in InitOutcomes :
        /\ heap' = Heap(<<>>)
        /\ op' = "import app.core"
        /\ input' = [env_file |-> env_file, environ |-> environ]
        /\ oracle' = Providers(<<>>, <<o_db, o_embed>>)
        /\ result' = import_core(env_file, environ, o_db, o_embed)
        /\ response' = NoResponse

\* ------------------------------------------- end-to-end queries in threads
\* One end-to-end query is recuperar_documentos(question, history) followed by
\* consultar_llm(documents, question, history). A thread runs it one provider
\* call at a time; the steps of different threads interleave freely. The
\* module globals llm, retriever and db are bound at import and only read.
ThreadInputs ==
    {[question |-> "requisitos", history |-> <<>>],
     [question |-> " becas ", history |-> <<Msg("dict", "user", "hola")>>]}

ThreadChat ==
    {[kind |-> "return", content |-> "respuesta"],
     [kind |-> "raise", text |-> "Request timed out."]}

ThreadGen ==
    {[kind |-> "return", content |-> "becas UDC"],
     [kind |-> "raise", text |-> "Request timed out."]}

ThreadStore ==
    {[kind |-> "return", docs |-> <<Doc("Requirement A", "a.pdf")>>],
     [kind |-> "return",
      docs |-> <<Doc("Requirement B", "a.pdf"), Doc("Requirement A", "b.pdf")>>],
     [kind |-> "raise", text |-> "Connection error."]}

\* mutant of found_of: the documents found so far are kept in one list that
\* every thread reads
found_of_first(frames, t) == frames["t1"].found

\* the documents the retriever of thread t has found so far: a local variable
\* of the call
found_of(frames, t) == frames[t].found

\* a thread takes a query
Begin ==
    /\ UNCHANGED <<op, input, oracle, result, response, heap, metrics>>
    /\ \E t \in Threads, in \in ThreadInputs :
        /\ threads[t].pc = "ready"
        /\ threads' = [threads EXCEPT ![t] =
               [NoFrame EXCEPT !.pc = "reformulate", !.question = in.question,
                               !.history = in.history]]

\* core.py:320, query = reformular_pregunta(history, query)
Reformulate ==
    /\ UNCHANGED <<op, input, oracle, result, response, heap, metrics>>
    /\ \E t \in Threads, o \in ThreadChat :
        /\ threads[t].pc = "reformulate"
        /\ threads' = [threads EXCEPT ![t] =
               [threads[t] EXCEPT !.pc = "generate",
                         !.q = reformular_pregunta(threads[t].history, threads[t].question, o).value,
                         !.chat = Append(@, o)]]

\* core.py:364, the chat call that generates the sub-queries; when it raises
\* the strategy returns [] (core.py:371-373)
Generate ==
    /\ UNCHANGED <<op, input, oracle, result, response, heap, metrics>>
    /\ \E t \in Threads, gen \in ThreadGen :
        /\ threads[t].pc = "generate"
        /\ threads' = [threads EXCEPT ![t] =
               IF gen.kind = "raise"
               THEN [threads[t] EXCEPT !.pc = "answer", !.docs = <<>>, !.chat = Append(@, gen)]
               ELSE [threads[t] EXCEPT !.pc = "retrieve",
                              !.queries = sub_queries(Return(gen.content, <<>>),
                                                      threads[t].q),
                              !.chat = Append(@, gen)]]

\* core.py:364, one retriever call per sub-query; after the last one the
\* results are merged (core.py:367-369); a call that raises ends the strategy
\* with [] (core.py:371-373)
Retrieve ==
    /\ UNCHANGED <<op, input, oracle, result, response, heap, metrics>>
    /\ \E t \in Threads, o \in ThreadStore :
        /\ threads[t].pc = "retrieve"
        /\ threads' = [threads EXCEPT ![t] =
               IF o.kind = "raise"
               THEN [threads[t] EXCEPT !.pc = "answer", !.docs = <<>>, !.queries = <<>>,
                              !.found = <<>>, !.store = Append(@, o)]
               ELSE IF Len(threads[t].queries) > 1
               THEN [threads[t] EXCEPT !.queries = Tail(@),
                              !.found = found_of(threads, t) \o o.docs,
                              !.store = Append(@, o)]
               ELSE [threads[t] EXCEPT !.pc = "answer", !.queries = <<>>, !.found = <<>>,
                              !.docs = documentos_unicos(
                                           unique_from(found_of(threads, t) \o o.docs, 1)),
                              !.store = Append(@, o)]]

\* main.py:222-226, consultar_llm on the documents retrieved
Answer ==
    /\ UNCHANGED <<op, input, oracle, result, response, heap, metrics>>
    /\ \E t \in Threads, o \in ThreadChat :
        /\ threads[t].pc = "answer"
        /\ threads' = [threads EXCEPT ![t] =
               [threads[t] EXCEPT !.pc = "done",
                         !.reply = consultar_llm(threads[t].docs, threads[t].question, threads[t].history, o).value,
                         !.chat = Append(@, o)]]

\* the query is answered; the thread is ready for the next one
Finish ==
    /\ UNCHANGED <<op, input, oracle, result, response, heap, metrics>>
    /\ \E t \in Threads :
        /\ threads[t].pc = "done"
        /\ threads' = [threads EXCEPT ![t] = NoFrame]

\* what the probes of a health check can find
Percentages == {50, 85, 95}

SystemProbes ==
    {[kind |-> "return", cpu |-> c, memory |-> m, disk |-> d] :
        c \in Percentages, m \in Percentages, d \in Percentages}
    \cup {[kind |-> "raise"]}

DatabaseProbes ==
    {[kind |-> "return", path_exists |-> e, path_writable |-> w] :
        e \in BOOLEAN, w \in BOOLEAN}
    \cup {[kind |-> "raise"]}

WorkerSettings == {Unset, Set("4"), Set("muchos")}

\* main.py:131, GET /health calls health_checker.check_health()
CheckHealth ==
    /\ op = "idle"
    /\ UNCHANGED <<threads, metrics>>
    /\ \E system \in SystemProbes, database \in DatabaseProbes,
          workers \in WorkerSettings :
        /\ heap' = Heap(<<>>)
        /\ op' = "check_health"
        /\ input' = [system |-> system, database |-> database, workers |-> workers]
        /\ oracle' = Providers(<<>>, <<>>)
        /\ result' = Return(check_health(system, database, workers), <<>>)
        /\ response' = NoResponse

\* the response times a request can take, in whole seconds
ResponseTimes == {1, 2}

\* a call of metrics_collector.record_request
RecordRequest ==
    /\ metrics.requests_total < MaxRequests
    /\ UNCHANGED <<oracle, result, response, heap, threads>>
    /\ \E success \in BOOLEAN, response_time \in ResponseTimes :
        /\ op' = "record_request"
        /\ input' = [success |-> success, response_time |-> response_time]
        /\ metrics' = record_request(metrics, success, response_time)

\* a request that goes through the middleware
MetricsMiddleware ==
    /\ metrics.requests_total < MaxRequests
    /\ UNCHANGED <<oracle, result, response, heap, threads>>
    /\ \E outcome \in {"response", "exception"}, response_time \in ResponseTimes :
        /\ op' = "metrics_middleware"
        /\ input' = [success |-> outcome = "response", response_time |-> response_time]
        /\ metrics' = metrics_middleware(metrics, outcome, response_time)

\* a call of metrics_collector.reset_metrics
ResetMetrics ==
    /\ UNCHANGED <<oracle, result, response, heap, threads>>
    /\ op' = "reset_metrics"
    /\ input' = Args("", <<>>, <<>>)
    /\ metrics' = reset_metrics(metrics)

\* ---------------------------------------------------------- specifications
\* the HTTP endpoints and the end-to-end retrieval they are written against
Next == PostRecuperarDocumentos \/ PostConsultar \/ RecuperarDocumentos \/ Idle
Spec == Init /\ [][Next]_vars

\* the answer step
NextAnswer == ConsultarLLM \/ Idle
SpecAnswer == Init /\ [][NextAnswer]_vars

\* the reformulation and re-ranking stages
NextStages == ReformularPregunta \/ ReordenarDocumentos \/ Idle
SpecStages == Init /\ [][NextStages]_vars

\* the three retrieval strategies
NextRetrieval == RecuperarDirecto \/ RecuperarHibrido \/ RecuperarMultiquery \/ Idle
SpecRetrieval == Init /\ [][NextRetrieval]_vars

\* the process start
NextStartup == ImportCore \/ Idle
SpecStartup == Init /\ [][NextStartup]_vars

\* the six pipeline operations, each called on its own
NextPipeline ==
    \/ ReformularPregunta \/ RecuperarDocumentos \/ RecuperarHibrido
    \/ RecuperarMultiquery \/ ReordenarDocumentos \/ ConsultarLLM \/ Idle
SpecPipeline == Init /\ [][NextPipeline]_vars

\* end-to-end queries served by threads whose steps interleave
NextThreads == Begin \/ Reformulate \/ Generate \/ Retrieve \/ Answer \/ Finish
SpecThreads == Init /\ [][NextThreads]_vars

\* the health check
NextHealth == CheckHealth \/ Idle
SpecHealth == Init /\ [][NextHealth]_vars

\* the metrics collector
NextMetrics == RecordRequest \/ MetricsMiddleware \/ ResetMetrics
SpecMetrics == Init /\ [][NextMetrics]_vars

\* ------------------------------------------------------------- properties
\* what the properties read off a state
IsEndpoint == op \in {"POST /recuperar_documentos", "POST /consultar"}

\* the request of the state passes the framework's validation
ValidRequest ==
    IF op = "POST /consultar"
    THEN valid_ChatRequest([question |-> input.question, history |-> input.history])
    ELSE valid_Question([question |-> input.question])

\* some provider call of the operation was told to fail
SomeChatFails == \E i \in DOMAIN oracle.chat : oracle.chat[i].kind = "raise"
SomeStoreFails == \E i \in DOMAIN oracle.store : oracle.store[i].kind = "raise"

\* the chat call of the operation was made: it is in the log of the result
ChatCallMade == Len(result.calls) > 0 /\ result.calls[1].provider = "llm"


\* C1: every request with a valid body and a non-blank question gets a
\* success response (status 200: a document list, or a reply) from
\* /recuperar_documentos and from /consultar, whatever the providers do.
C1_EndpointsNeverFail ==
    (IsEndpoint /\ ValidRequest /\ strip(input.question) # "")
        => response.status = 200

\* the input of the merge step of the state: for the hybrid strategy the
\* similarity results followed by the text results, for the multi-query
\* strategy what the retriever returned (its union of the sub-query results)
RECURSIVE ConcatDocs(_)
ConcatDocs(outcomes) ==
    IF Len(outcomes) = 0 THEN <<>>
    ELSE Head(outcomes).docs \o ConcatDocs(Tail(outcomes))

MergeInput ==
    IF op = "recuperar_documentos_hibrido"
    THEN ConcatDocs(oracle.store)
    ELSE unique_from(ConcatDocs(oracle.store), 1)

\* the merge step ran: the strategy got through all its calls
MergeRan ==
    /\ op \in {"recuperar_documentos_hibrido", "recuperar_documentos_multiquery"}
    /\ ~SomeChatFails /\ ~SomeStoreFails
    /\ Len(oracle.store) > 0
    /\ \A i \in 1..Len(input.history) :
          op = "recuperar_documentos_hibrido" => input.history[i].form = "object"

FirstWith(docs, c) ==
    docs[CHOOSE i \in 1..Len(docs) :
            /\ docs[i].page_content = c
            /\ \A j \in 1..(i - 1) : docs[j].page_content # c]

LastWith(docs, c) ==
    docs[CHOOSE i \in 1..Len(docs) :
            /\ docs[i].page_content = c
            /\ \A j \in (i + 1)..Len(docs) : docs[j].page_content # c]

\* C2 (as claimed): of the documents that share a content, the merge step
\* returns the one that comes first in its input, with its metadata.
C2_KeepsFirstInstance ==
    MergeRan =>
        \A i \in 1..Len(result.value) :
            result.value[i] = FirstWith(MergeInput, result.value[i].page_content)

\* C2 (amended): of the documents that share a content, the merge step
\* returns the one that comes last in its input, with its metadata; for
\* D1 ++ D2 the instance from D2 is the one kept.
C2_KeepsLastInstance ==
    MergeRan =>
        \A i \in 1..Len(result.value) :
            result.value[i] = LastWith(MergeInput, result.value[i].page_content)

C2_Witness ==
    /\ op = "recuperar_documentos_hibrido"
    /\ MergeRan
    /\ oracle.store[1].docs = <<Doc("Requirement A", "a.pdf")>>
    /\ oracle.store[2].docs = <<Doc("Requirement A", "b.pdf")>>
    /\ result.value = <<Doc("Requirement A", "b.pdf")>>

\* C3: recuperar_documentos(question, history) returns and never raises,
\* whatever the chat and store calls do, and returns the empty sequence when
\* the retrieval it runs fails (the generation call or a store call).
C3_RecuperarNeverRaises ==
    op = "recuperar_documentos" =>
        /\ result.kind = "return"
        /\ \A i \in 1..Len(result.value) : result.value[i] \in DocPool
        /\ (oracle.chat[2].kind = "raise" \/ SomeStoreFails) => result.value = <<>>

C3_Witness ==
    /\ op = "recuperar_documentos"
    /\ oracle.chat[1].kind = "raise"
    /\ oracle.chat[2].kind = "return"
    /\ Len(oracle.store) = 2
    /\ oracle.store[1].kind = "return" /\ Len(oracle.store[1].docs) > 0
    /\ oracle.store[2].kind = "raise"
    /\ result.kind = "return" /\ result.value = <<>>

\* C4: each retrieval strategy (direct, hybrid, multi-query) returns the
\* empty sequence and does not raise whenever a provider or store call it
\* makes fails, whichever call it is.
C4_StrategiesReturnEmptyOnFailure ==
    op \in {"recuperar_documentos_direct", "recuperar_documentos_hibrido",
            "recuperar_documentos_multiquery"} =>
        /\ result.kind = "return"
        /\ (SomeChatFails \/ SomeStoreFails) => result.value = <<>>

C4_Witness ==
    /\ op = "recuperar_documentos_hibrido"
    /\ oracle.store[1].kind = "return" /\ Len(oracle.store[1].docs) > 0
    /\ oracle.store[2].kind = "raise"
    /\ Len(result.calls) = 2
    /\ result.kind = "return" /\ result.value = <<>>

\* C5: when the chat call fails, reformular_pregunta(history, question)
\* returns exactly the original question and does not raise.
C5_ReformulationFallback ==
    (op = "reformular_pregunta" /\ SomeChatFails) =>
        result.kind = "return" /\ result.value = input.question

C5_Witness ==
    /\ op = "reformular_pregunta"
    /\ SomeChatFails
    /\ Len(input.history) > 3
    /\ input.question = " becas "
    /\ result.value = " becas "

\* C6: when a relevance call fails, on the first document or on a later
\* one, reordenar_documentos(query, documents) returns the documents it was
\* given, in their order, and does not raise; on the empty sequence it
\* returns the empty sequence.
C6_RerankFallback ==
    op = "reordenar_documentos" =>
        /\ result.kind = "return"
        /\ SomeChatFails => result.value = input.documents
        /\ Len(input.documents) = 0 => result.value = <<>>

\* a later call fails, after two judgments that would have reordered the input
C6_Witness ==
    /\ op = "reordenar_documentos"
    /\ Len(input.documents) = 3
    /\ oracle.chat[1].kind = "return" /\ oracle.chat[1].content = "1"
    /\ oracle.chat[2].kind = "return" /\ oracle.chat[2].content = "5"
    /\ oracle.chat[3].kind = "raise"
    /\ input.documents[1] # input.documents[2]
    /\ result.value = input.documents

Apology == "Lo siento, ocurrió un error: "

\* C7: consultar_llm never raises, and when its chat call fails it returns
\* an apology string that contains the raw error text.
C7_AnswerApologyOnFailure ==
    op = "consultar_llm" =>
        /\ result.kind = "return"
        /\ (ChatCallMade /\ SomeChatFails) =>
              /\ StartsWith(result.value, Apology)
              /\ EndsWith(result.value, oracle.chat[1].text)
              /\ Len(result.value) = Len(Apology) + Len(oracle.chat[1].text)

C7_Witness ==
    /\ op = "consultar_llm"
    /\ ChatCallMade /\ SomeChatFails
    /\ Len(input.documents) > 0 /\ Len(input.history) > 0
    /\ result.value = "Lo siento, ocurrió un error: Request timed out."

\* C8 (as claimed): consultar_llm([], Q, H) returns a non-empty string
\* whatever the chat provider does.
C8_NonEmptyAnswer ==
    (op = "consultar_llm" /\ Len(input.documents) = 0) =>
        result.kind = "return" /\ Len(result.value) > 0

\* C8 (amended): consultar_llm([], Q, H) never raises and returns a string,
\* which is empty exactly when the chat call succeeds with an empty
\* completion text: it is non-empty whenever the provider fails (the
\* apology) or returns a non-empty completion.
C8_NonEmptyUnlessEmptyCompletion ==
    (op = "consultar_llm" /\ Len(input.documents) = 0) =>
        /\ result.kind = "return"
        /\ Len(result.value) = 0
              <=> (ChatCallMade /\ oracle.chat[1].kind = "return"
                                /\ oracle.chat[1].content = "")

C8_Witness ==
    /\ op = "consultar_llm"
    /\ Len(input.documents) = 0
    /\ ChatCallMade
    /\ oracle.chat[1].kind = "return" /\ oracle.chat[1].content = ""
    /\ result.value = ""

\* the history entries consultar_llm keeps, in order
IsTurn(msg) == msg.role \in {"user", "assistant"}
FilteredHistory == SelectSeq(input.history, IsTurn)
MessageOf(msg) ==
    [type |-> IF msg.role = "user" THEN "human" ELSE "ai", content |-> msg.content]

\* the messages of the chat call of the state
SentMessages == result.calls[1].input

\* C9: the messages consultar_llm sends are one leading system message, one
\* message per history entry of role user or assistant, in history order
\* and with the role kept (other roles skipped), and one trailing user
\* message with the question: |filtered history| + 2 messages.
C9_MessageSequence ==
    (op = "consultar_llm" /\ ChatCallMade) =>
        /\ Len(result.calls) = 1
        /\ Len(SentMessages) = Len(FilteredHistory) + 2
        /\ SentMessages[1].type = "system"
        /\ \A i \in 2..Len(SentMessages) : SentMessages[i].type # "system"
        /\ \A i \in 1..Len(FilteredHistory) :
              SentMessages[i + 1] = MessageOf(FilteredHistory[i])
        /\ SentMessages[Len(SentMessages)] = HumanMessage(input.question)

\* a system entry is skipped between two kept entries of different roles
C9_Witness ==
    /\ op = "consultar_llm"
    /\ ChatCallMade
    /\ Len(input.history) = 2
    /\ input.history[1].role = "system"
    /\ input.history[2].role = "assistant"
    /\ Len(SentMessages) = 3
    /\ SentMessages[2] = AIMessage("buen dia")

\* where the k-th content starts in the context block: after the contents
\* before it and one separator each
RECURSIVE OffsetOf(_, _)
OffsetOf(contents, k) ==
    IF k = 1 THEN 0 ELSE OffsetOf(contents, k - 1) + Len(contents[k - 1]) + 1

\* s is the contents separated by single newlines: every content at its
\* place, a newline before each content but the first, and nothing else
IsNewlineJoined(s, contents) ==
    IF Len(contents) = 0 THEN s = ""
    ELSE /\ Len(s) = OffsetOf(contents, Len(contents)) + Len(contents[Len(contents)])
         /\ \A k \in 1..Len(contents) :
               /\ SubSeq(s, OffsetOf(contents, k) + 1,
                         OffsetOf(contents, k) + Len(contents[k])) = contents[k]
               /\ k > 1 => SubSeq(s, OffsetOf(contents, k), OffsetOf(contents, k)) = "\n"

\* C10: the system message is the fixed instructions followed by the context
\* block, which is the documents' contents joined by single newlines in the
\* order of the documents argument, and empty when there are no documents.
C10_ContextBlock ==
    (op = "consultar_llm" /\ ChatCallMade) =>
        /\ StartsWith(SentMessages[1].content, SystemPrompt)
        /\ IsNewlineJoined(SubSeq(SentMessages[1].content, Len(SystemPrompt) + 1,
                                  Len(SentMessages[1].content)),
                           [i \in 1..Len(input.documents) |->
                               input.documents[i].page_content])

C10_Witness ==
    /\ op = "consultar_llm"
    /\ ChatCallMade
    /\ input.documents = <<Doc("Requirement A", "a.pdf"), Doc("Requirement B", "a.pdf")>>
    /\ SentMessages[1].content = SystemPrompt \o "Requirement A\nRequirement B"

\* the contents of a document sequence, as a set and in order
Contents(docs) == {docs[i].page_content : i \in 1..Len(docs)}
ContentsOf(docs) == [i \in 1..Len(docs) |-> docs[i].page_content]

\* what the sub-queries of the strategy returned, one result after the other
RawResults == ConcatDocs(oracle.store)

HasRepeatedContent(docs) ==
    \E i, j \in 1..Len(docs) : i < j /\ docs[i].page_content = docs[j].page_content

\* C11: the merge step returns every distinct content of its input exactly
\* once: no two returned documents have equal content, no content of the
\* input is missing, and when two sub-query results share a content the
\* number of documents returned is smaller than the sum of the result counts.
C11_DistinctContentsOnce ==
    MergeRan =>
        /\ ~HasRepeatedContent(result.value)
        /\ Contents(result.value) = Contents(RawResults)
        /\ Contents(result.value) = Contents(MergeInput)
        /\ HasRepeatedContent(RawResults) => Len(result.value) < Len(RawResults)

C11_Witness ==
    /\ op = "recuperar_documentos_multiquery"
    /\ MergeRan
    /\ Len(oracle.store) = 2
    /\ oracle.store[1].docs = <<Doc("Requirement A", "a.pdf"), Doc("Requirement B", "a.pdf")>>
    /\ oracle.store[2].docs = <<Doc("Requirement A", "b.pdf")>>
    /\ Len(result.value) = 2

\* the elements of a sequence in the order of their first occurrence
RECURSIVE FirstOccurrences(_, _)
FirstOccurrences(seq, acc) ==
    IF Len(seq) = 0 THEN acc
    ELSE IF \E i \in 1..Len(acc) : acc[i] = Head(seq)
    THEN FirstOccurrences(Tail(seq), acc)
    ELSE FirstOccurrences(Tail(seq), Append(acc, Head(seq)))

\* C12: the merge step returns the distinct contents in the order of their
\* first occurrence in its concatenated input (hybrid: the similarity-search
\* results, then the contents of the text search not already present).
C12_FirstOccurrenceOrder ==
    MergeRan =>
        /\ ContentsOf(result.value) = FirstOccurrences(ContentsOf(RawResults), <<>>)
        /\ ContentsOf(result.value) = FirstOccurrences(ContentsOf(MergeInput), <<>>)

C12_Witness ==
    /\ op = "recuperar_documentos_hibrido"
    /\ MergeRan
    /\ oracle.store[1].docs = <<Doc("Requirement A", "a.pdf"), Doc("Requirement B", "a.pdf")>>
    /\ oracle.store[2].docs = <<Doc("Requirement B", "a.pdf"), Doc("Requirement A", "b.pdf")>>
    /\ ContentsOf(result.value) = <<"Requirement A", "Requirement B">>

\* C13: the merge step is idempotent: applied to what it returned, it
\* returns the same documents, with the same metadata, in the same order.
C13_DedupIdempotent ==
    MergeRan => documentos_unicos(result.value) = result.value

C13_Witness ==
    /\ op = "recuperar_documentos_hibrido"
    /\ MergeRan
    /\ HasRepeatedContent(RawResults)
    /\ Len(result.value) = 2
    /\ documentos_unicos(result.value) = result.value

\* the reformulation call of the pipeline failed and every later call succeeded
OnlyReformulationFails ==
    /\ op = "recuperar_documentos"
    /\ oracle.chat[1].kind = "raise"
    /\ oracle.chat[2].kind = "return"
    /\ ~SomeStoreFails

\* C14: when the chat call of the reformulation step fails and every later
\* provider and store call succeeds, recuperar_documentos returns the
\* documents retrieved for the original question: the sub-queries are generated
\* from the original question, the original question is itself searched, and
\* the result is neither an error nor emptied by the failure.
C14_ReformulationFailureHarmless ==
    OnlyReformulationFails =>
        /\ result.kind = "return"
        /\ result.value =
               recuperar_documentos_multiquery(input.question, input.history,
                                               oracle.chat[2], oracle.store).value
        /\ result.value = documentos_unicos(unique_from(RawResults, 1))
        /\ Len(result.calls) = 2 + Len(oracle.store)
        /\ result.calls[2].input = <<HumanMessage(input.question)>>
        /\ result.calls[Len(result.calls)].input = input.question
        /\ RawResults # <<>> => result.value # <<>>

C14_Witness ==
    /\ OnlyReformulationFails
    /\ Len(input.history) > 0
    /\ Len(oracle.store) = 2
    /\ oracle.store[1].docs = <<Doc("Requirement A", "a.pdf")>>
    /\ oracle.store[2].docs = <<Doc("Requirement B", "a.pdf")>>
    /\ result.value = <<Doc("Requirement A", "a.pdf"), Doc("Requirement B", "a.pdf")>>

\* the configuration of the state is in error: no .env file, no API key or
\* an ill-formed one, no store path, or a number that does not parse
BadNumbers == {"muchos", "alta"}

ConfigurationError ==
    \/ ~input.env_file
    \/ ~input.environ.OPENAI_API_KEY.set
    \/ input.environ.OPENAI_API_KEY.value \notin {"sk-test"}
    \/ ~input.environ.CHROMA_PATH.set
    \/ input.environ.CHROMA_PATH.value = ""
    \/ \E name \in {"RETRIEVER_K", "MAX_TOKENS", "TEMPERATURE"} :
          input.environ[name].set /\ input.environ[name].value \in BadNumbers

Started == op = "import app.core" /\ result.kind = "return"
NotStarted == op = "import app.core" /\ result.kind = "raise"

\* C15 (as claimed): only a configuration error keeps the process from
\* starting; a provider error never does.
C15_OnlyConfigurationStops ==
    NotStarted => ConfigurationError

\* C15 (amended): the process does not start exactly when the configuration
\* is in error (ValueError, before any provider is called), or the store
\* cannot be opened, or the start-up test call to the embedding provider
\* fails, which ends the import with ConnectionError.
C15_ConfigurationOrStartupProbeStops ==
    op = "import app.core" =>
        /\ NotStarted <=> (ConfigurationError \/ SomeStoreFails)
        /\ ConfigurationError => (result.exc = "ValueError" /\ result.calls = <<>>)
        /\ (~ConfigurationError /\ oracle.store[1].kind = "return"
                /\ oracle.store[2].kind = "raise")
               => (NotStarted /\ result.exc = "ConnectionError")

C15_Witness ==
    /\ NotStarted
    /\ ~ConfigurationError
    /\ oracle.store[1].kind = "return"
    /\ oracle.store[2].kind = "raise"
    /\ result.exc = "ConnectionError"
    /\ Len(result.calls) = 2

\* C16 (as claimed): whenever the services are initialized, the retrieval
\* depth handed to the retriever is at least 1, whatever RETRIEVER_K holds.
C16_RetrievalDepthPositive ==
    Started => result.value.retriever.k >= 1

\* the operations of the pipeline
PipelineOps ==
    {"reformular_pregunta", "recuperar_documentos", "recuperar_documentos_hibrido",
     "recuperar_documentos_multiquery", "reordenar_documentos", "consultar_llm"}

\* C18: no pipeline operation changes the caller's history: when it has
\* returned, with its result or with its fallback, the caller's list holds
\* the entries it was called with, in the same order.
C18_HistoryUnchanged ==
    op \in PipelineOps =>
        /\ result.kind = "return"
        /\ heap.history = input.history

C18_Witness ==
    /\ op = "reformular_pregunta"
    /\ Len(input.history) = 4
    /\ ChatCallMade
    /\ result.calls[1].input[2].content
           = "Historial: " \o repr_list(SubSeq(input.history, 2, 4))
    /\ heap.history = input.history

\* what the query of a frame returns when it runs alone against the provider
\* responses the frame has received
SoloQuery(f) ==
    reformular_pregunta(f.history, f.question, f.chat[1]).value

SoloDocuments(f) ==
    recuperar_documentos(f.question, f.history, f.chat[1], f.chat[2], f.store).value

SoloReply(f) ==
    consultar_llm(SoloDocuments(f), f.question, f.history, f.chat[3]).value

\* the frame holds what its own query has computed so far, and nothing else
FrameIsOwn(f) ==
    /\ f.pc = "ready" => f = NoFrame
    /\ f.pc \in {"generate", "retrieve", "answer", "done"} => f.q = SoloQuery(f)
    /\ f.pc = "retrieve" =>
          /\ f.found = ConcatDocs(f.store)
          /\ Len(f.queries) + Len(f.store) = 2
          /\ f.queries[Len(f.queries)] = SoloQuery(f)
    /\ f.pc \in {"answer", "done"} => f.docs = SoloDocuments(f)
    /\ f.pc = "done" => f.reply = SoloReply(f)

\* C17: end-to-end queries whose provider calls interleave are independent:
\* each returns the documents and the reply it returns when run alone against
\* the same provider responses, and at every step a query's variables hold
\* only what its own question, history and provider responses determine.
C17_QueriesIndependent ==
    \A t \in Threads : FrameIsOwn(threads[t])

C17_Witness ==
    /\ threads["t1"].pc = "retrieve"
    /\ threads["t1"].found = <<Doc("Requirement A", "a.pdf")>>
    /\ threads["t2"].pc = "done"
    /\ threads["t2"].question # threads["t1"].question
    /\ threads["t2"].docs = <<Doc("Requirement B", "a.pdf"), Doc("Requirement A", "b.pdf")>>
    /\ threads["t2"].reply = "respuesta"

\* the query the reformulation step of the state hands to the retrieval
Reformulated ==
    IF oracle.chat[1].kind = "return" THEN oracle.chat[1].content ELSE input.question

CountOf(s, sub) ==
    Cardinality({i \in 1..(Len(s) - Len(sub) + 1) : SubSeq(s, i, i + Len(sub) - 1) = sub})

\* the entries of a history from the third-last on
Recent(history) ==
    SubSeq(history, IF Len(history) > 3 THEN Len(history) - 2 ELSE 1, Len(history))

\* the text of the history message of the reformulation call of the state
HistorySent == result.calls[1].input[2].content

\* C20: the reformulation call carries the last 3 entries of history when
\* there are more than 3, every entry when there are 1 to 3, and an empty
\* list when there is none; no older entry is in any message of the call.
C20_LastThreeTurns ==
    op = "reformular_pregunta" =>
        /\ Len(result.calls) = 1
        /\ result.calls[1].input[1] = SystemMessage(ReformulationPrompt)
        /\ result.calls[1].input[3] = HumanMessage("Pregunta: " \o input.question)
        /\ HistorySent = "Historial: " \o repr_list(Recent(input.history))
        /\ CountOf(HistorySent, "role") =
               (IF Len(input.history) > 3 THEN 3 ELSE Len(input.history))
        /\ Len(input.history) = 0 => HistorySent = "Historial: []"

C20_Witness ==
    /\ op = "reformular_pregunta"
    /\ Len(input.history) = 4
    /\ input.history[1].content = "nota"
    /\ \A i \in 2..4 : input.history[i].content # "nota"
    /\ CountOf(HistorySent, "nota") = 0
    /\ CountOf(HistorySent, "role") = 3

\* the reformulation call of the state succeeded
ReformulationSucceeds ==
    /\ op \in {"reformular_pregunta", "recuperar_documentos"}
    /\ oracle.chat[1].kind = "return"

\* C21: when the reformulation call succeeds, reformular_pregunta returns the
\* completion text as the provider returned it, the empty text included, and
\* recuperar_documentos uses that text as its retrieval query: the sub-queries
\* are generated from it and it is the query searched in place of the question.
C21_RewriteUsedVerbatim ==
    ReformulationSucceeds =>
        /\ op = "reformular_pregunta" =>
              (result.kind = "return" /\ result.value = oracle.chat[1].content)
        /\ op = "recuperar_documentos" =>
              /\ result.calls[2].input = <<HumanMessage(oracle.chat[1].content)>>
              /\ (oracle.chat[2].kind = "return" /\ ~SomeStoreFails) =>
                    /\ result.calls[Len(result.calls)].provider = "retriever"
                    /\ result.calls[Len(result.calls)].input = oracle.chat[1].content

C21_Witness ==
    /\ op = "recuperar_documentos"
    /\ oracle.chat[1] = [kind |-> "return", content |-> ""]
    /\ input.question = "requisitos"
    /\ Len(result.calls) = 4
    /\ result.calls[4] = [provider |-> "retriever", input |-> ""]
    /\ Len(result.value) = 1

\* the texts of history entries
TextsOf(history) == [i \in 1..Len(history) |-> history[i].content]

\* the query the hybrid strategy is to search: the texts of the last 3 turns
\* separated by single spaces, then the query
EnrichedQuery ==
    strip(join(" ", TextsOf(Recent(input.history))) \o " " \o input.question)

\* C22 (as claimed): recuperar_documentos_hibrido searches with the enriched
\* query built from the texts of the last 3 history turns joined by single
\* spaces and followed by the query, whatever the history.
C22_EnrichedQueryFromRecentTurns ==
    op = "recuperar_documentos_hibrido" =>
        /\ Len(result.calls) >= 1
        /\ result.calls[1] = [provider |-> "retriever", input |-> EnrichedQuery]

\* the hybrid strategy of the state got its enriched query
HybridSearches ==
    /\ op = "recuperar_documentos_hibrido"
    /\ \A i \in 1..Len(input.history) : input.history[i].form = "object"

AllJudged == op = "reordenar_documentos" /\ ~SomeChatFails

\* the permutations of 1..n
Perms(n) == {p \in [1..n -> 1..n] : \A i, j \in 1..n : p[i] = p[j] => i = j}

\* the place of a judgment in the order of str: "1" < "10" < "5"
TextRank(judgment) == CASE judgment = "1" -> 1 [] judgment = "10" -> 2 [] judgment = "5" -> 3

\* the judgment the model returned for the i-th input document
JudgmentOf(i) == oracle.chat[i].content

\* p arranges the input documents as the result has them
Arranges(p) == \A i \in 1..Len(result.value) : result.value[i] = input.documents[p[i]]

MappingHistory == \A i \in 1..Len(input.history) : input.history[i].form = "dict"

\* C25: consultar_llm makes exactly one chat call per invocation, also when
\* the call fails (no retry), and when the call succeeds it returns the
\* completion text as the provider returned it.
C25_OneAnswerCall ==
    op = "consultar_llm" =>
        /\ Len(result.calls) <= 1
        /\ MappingHistory =>
              /\ Len(result.calls) = 1
              /\ result.calls[1].provider = "llm"
              /\ result.calls[1].input[Len(result.calls[1].input)]
                     = HumanMessage(input.question)
              /\ oracle.chat[1].kind = "return" => result.value = oracle.chat[1].content
              /\ oracle.chat[1].kind = "raise" => StartsWith(result.value, Apology)

C25_Witness ==
    /\ op = "consultar_llm"
    /\ Len(input.history) = 2
    /\ MappingHistory
    /\ oracle.chat[1].kind = "raise"
    /\ Len(result.calls) = 1
    /\ StartsWith(result.value, Apology)

\* C26: when every relevance call succeeds, the result of reordenar_documentos
\* is a permutation of its input (nothing added, dropped or duplicated) in
\* which documents of equal judgment keep their input order, and the input
\* list is as it was.
C26_StablePermutation ==
    AllJudged =>
        /\ Len(result.value) = Len(input.documents)
        /\ \E p \in Perms(Len(input.documents)) :
              /\ Arranges(p)
              /\ \A i, j \in 1..Len(input.documents) :
                    (i < j /\ JudgmentOf(p[i]) = JudgmentOf(p[j])) => p[i] < p[j]
              /\ \A i, j \in 1..Len(input.documents) :
                    i < j => TextRank(JudgmentOf(p[i])) >= TextRank(JudgmentOf(p[j]))
        /\ heap.documentos = input.documents

C26_Witness ==
    /\ AllJudged
    /\ input.documents = <<Doc("Requirement A", "a.pdf"), Doc("Requirement B", "a.pdf"),
                           Doc("Requirement A", "b.pdf")>>
    /\ JudgmentOf(1) = "1" /\ JudgmentOf(2) = "5" /\ JudgmentOf(3) = "1"
    /\ result.value = <<Doc("Requirement B", "a.pdf"), Doc("Requirement A", "a.pdf"),
                        Doc("Requirement A", "b.pdf")>>
    /\ heap.documentos = input.documents

\* every chat call of the pipeline of the state failed
EveryChatCallFails ==
    /\ op = "recuperar_documentos"
    /\ \A i \in 1..Len(oracle.chat) : oracle.chat[i].kind = "raise"

\* C27: when the chat provider fails on every call, recuperar_documentos
\* returns the empty sequence although the store is healthy: the reformulation
\* falls back to the question, the sub-query generation of the multi-query
\* strategy fails in its turn, and the store is never searched.
C27_NoDocumentsWithoutChat ==
    EveryChatCallFails =>
        /\ result.kind = "return"
        /\ result.value = <<>>
        /\ Len(result.calls) = 2
        /\ \A i \in 1..2 : result.calls[i].provider = "llm"
        /\ result.calls[2].input = <<HumanMessage(input.question)>>

C27_Witness ==
    /\ EveryChatCallFails
    /\ Len(oracle.chat) = 2
    /\ input.question = "requisitos"
    /\ Len(input.history) = 4
    /\ result.value = <<>>
    /\ Len(result.calls) = 2

\* C28: recuperar_documentos_hibrido is all-or-nothing: when the similarity
\* search returns and the text search that follows fails, it returns the empty
\* sequence; whatever it returns is either empty or the merge of both results,
\* never the documents of one search alone.
C28_HybridAllOrNothing ==
    op = "recuperar_documentos_hibrido" =>
        /\ result.kind = "return"
        /\ (oracle.store[1].kind = "return" /\ oracle.store[2].kind = "raise")
               => result.value = <<>>
        /\ result.value # <<>> =>
              /\ ~SomeStoreFails
              /\ Len(result.calls) = 2
              /\ result.value =
                     documentos_unicos(oracle.store[1].docs \o oracle.store[2].docs)

C28_Witness ==
    /\ HybridSearches
    /\ Len(input.history) > 0
    /\ oracle.store[1].kind = "return"
    /\ Len(oracle.store[1].docs) = 2
    /\ oracle.store[2].kind = "raise"
    /\ Len(result.calls) = 2
    /\ result.calls[2].provider = "db"
    /\ result.value = <<>>

\* the statuses of the component checks of the health response of the state
CheckStatuses == {result.value.checks[name].status : name \in {"system", "database", "api"}}

\* C29: check_health reports 'unhealthy' exactly when some component check is
\* 'critical', otherwise 'degraded' exactly when some component check is
\* 'degraded', and 'healthy' in every other case, a component check that
\* ended in 'error' included.
C29_OverallStatus ==
    op = "check_health" =>
        /\ result.value.overall_status = "unhealthy" <=> "critical" \in CheckStatuses
        /\ "critical" \notin CheckStatuses =>
              (result.value.overall_status = "degraded" <=> "degraded" \in CheckStatuses)
        /\ ("critical" \notin CheckStatuses /\ "degraded" \notin CheckStatuses) =>
              result.value.overall_status = "healthy"
        /\ result.value.overall_status \in {"unhealthy", "degraded", "healthy"}

C29_Witness ==
    /\ op = "check_health"
    /\ input.system.kind = "raise"
    /\ result.value.checks.system.status = "error"
    /\ result.value.checks.database.status = "healthy"
    /\ result.value.checks.api.status = "error"
    /\ result.value.overall_status = "healthy"

\* the entries of the history that record a request with the given outcome
Recorded(history, success) ==
    Cardinality({i \in DOMAIN history : history[i].success = success})

\* C30: after any sequence of record_request and reset_metrics calls,
\* requests_total equals successful_queries + failed_queries; every recorded
\* request has raised requests_total by exactly one and exactly one of the two
\* other counters by one (the counters equal the numbers of requests, of
\* successes and of failures recorded since the last reset), and reset_metrics
\* leaves all three counters at 0.
C30_CountersConsistent ==
    /\ metrics.requests_total = metrics.successful_queries + metrics.failed_queries
    /\ metrics.requests_total = Len(metrics.metrics_history)
    /\ metrics.successful_queries = Recorded(metrics.metrics_history, TRUE)
    /\ metrics.failed_queries = Recorded(metrics.metrics_history, FALSE)
    /\ op \in {"record_request", "metrics_middleware"} =>
        /\ metrics.requests_total >= 1
        /\ metrics.metrics_history[Len(metrics.metrics_history)] = input
    /\ op = "reset_metrics" =>
        /\ metrics.requests_total = 0
        /\ metrics.successful_queries = 0
        /\ metrics.failed_queries = 0

\* C30 witness: a failed request has just been recorded after two successes
C30_Witness ==
    /\ op = "record_request"
    /\ ~input.success
    /\ metrics.successful_queries = 2
    /\ metrics.failed_queries >= 1
    /\ metrics.requests_total = metrics.successful_queries + metrics.failed_queries

====
